---- MODULE Spec2Model ----
(***************************************************************************)
(* iTunes Artwork Finder: the query parser (parseSearchTerm), the search   *)
(* dispatch (onload, the form submit handler, performSearch) and the       *)
(* catalog request built by fetchResultsProxy / fetchResultsLookup, the    *)
(* artwork links and display title of displayResults, and what             *)
(* performSearch does with the answers of searches that are in flight      *)
(* together.                                                               *)
(*                                                                         *)
(* JavaScript strings are modelled as sequences of one-character strings,  *)
(* so that trimming, case folding, prefix tests and the regular            *)
(* expressions of the source are computed character by character.          *)
(***************************************************************************)
EXTENDS Integers, Sequences, FiniteSets, TLC

(***************************************************************************)
(* String primitives of the JavaScript runtime used by the source.         *)
(***************************************************************************)

UpperChars == <<"A","B","C","D","E","F","G","H","I","J","K","L","M",
                "N","O","P","Q","R","S","T","U","V","W","X","Y","Z">>

LowerChars == <<"a","b","c","d","e","f","g","h","i","j","k","l","m",
                "n","o","p","q","r","s","t","u","v","w","x","y","z">>

Digits == {"0","1","2","3","4","5","6","7","8","9"}

\* characters matched by \s and removed by String.prototype.trim
WhiteSpace == {" ", "\t", "\n"}

\* String.prototype.toLowerCase on the letters A-Z
LowerOfUpper ==
  [c \in {UpperChars[i] : i \in 1..26} |->
     LowerChars[CHOOSE i \in 1..26 : UpperChars[i] = c]]

\* String.prototype.toLowerCase, one character
LowerChar(c) == IF c \in DOMAIN LowerOfUpper THEN LowerOfUpper[c] ELSE c

\* String.prototype.toLowerCase
toLowerCase(s) == [i \in 1..Len(s) |-> LowerChar(s[i])]

\* the canonicalisation of a RegExp with the i flag on the letters a-z
UpperOfLower ==
  [c \in {LowerChars[i] : i \in 1..26} |->
     UpperChars[CHOOSE i \in 1..26 : LowerChars[i] = c]]

\* the canonicalisation of a RegExp with the i flag (upper case), one character
CanonChar(c) == IF c \in DOMAIN UpperOfLower THEN UpperOfLower[c] ELSE c

\* does pattern p (literal characters) occur in s at position i, exactly
OccursAt(s, p, i) ==
  /\ i >= 1
  /\ i + Len(p) - 1 <= Len(s)
  /\ \A k \in 1..Len(p) : s[i + k - 1] = p[k]

\* does the literal p match s at position i under the i flag
OccursAtI(s, p, i) ==
  /\ i >= 1
  /\ i + Len(p) - 1 <= Len(s)
  /\ \A k \in 1..Len(p) : CanonChar(s[i + k - 1]) = CanonChar(p[k])

\* String.prototype.includes
includes(s, p) == \E i \in 1..(Len(s) + 1) : OccursAt(s, p, i)

\* String.prototype.startsWith
startsWith(s, p) == OccursAt(s, p, 1)

\* String.prototype.trim
trim(s) ==
  IF \A i \in 1..Len(s) : s[i] \in WhiteSpace
    THEN << >>
    ELSE LET first == CHOOSE i \in 1..Len(s) :
                        /\ s[i] \notin WhiteSpace
                        /\ \A j \in 1..(i - 1) : s[j] \in WhiteSpace
             last  == CHOOSE i \in 1..Len(s) :
                        /\ s[i] \notin WhiteSpace
                        /\ \A j \in (i + 1)..Len(s) : s[j] \in WhiteSpace
         IN  SubSeq(s, first, last)

DotPng == <<".","p","n","g">>

\* s.replace(/\.png/gi, ''): one left-to-right pass over s from position i,
\* dropping every non-overlapping match
RECURSIVE removePngFrom(_, _)
removePngFrom(s, i) ==
  IF i > Len(s) THEN << >>
  ELSE IF OccursAtI(s, DotPng, i) THEN removePngFrom(s, i + Len(DotPng))
  ELSE <<s[i]>> \o removePngFrom(s, i + 1)

removePng(s) == removePngFrom(s, 1)

\* s.replace(new RegExp('^' + prefix, 'i'), '')
stripPrefix(s, prefix) ==
  IF OccursAtI(s, prefix, 1) THEN SubSeq(s, Len(prefix) + 1, Len(s)) ELSE s

(***************************************************************************)
(* The lookup tables of parseSearchTerm, in the order of the source        *)
(* (for ... in visits the keys in insertion order).                        *)
(***************************************************************************)

attributeEntityMap ==
  << [prefix |-> <<"a","r","t","i","s","t",":">>,         entity |-> "album",     attribute |-> "artistTerm"],
     [prefix |-> <<"t","i","t","l","e",":">>,             entity |-> "album",     attribute |-> "titleTerm"],
     [prefix |-> <<"a","u","t","h","o","r",":">>,         entity |-> "audiobook", attribute |-> "authorTerm"],
     [prefix |-> <<"d","i","r","e","c","t","o","r",":">>, entity |-> "movie",     attribute |-> "directorTerm"],
     [prefix |-> <<"a","c","t","o","r",":">>,             entity |-> "movie",     attribute |-> "actorTerm"],
     [prefix |-> <<"c","o","m","p","o","s","e","r",":">>, entity |-> "album",     attribute |-> "composerTerm"] >>

entityMap ==
  << [prefix |-> <<"a","l","b","u","m",":">>,                 entity |-> "album"],
     [prefix |-> <<"s","o","n","g",":">>,                     entity |-> "song"],
     [prefix |-> <<"a","u","d","i","o","b","o","o","k",":">>, entity |-> "audiobook"],
     [prefix |-> <<"e","b","o","o","k",":">>,                 entity |-> "ebook"],
     [prefix |-> <<"m","o","v","i","e",":">>,                 entity |-> "movie"],
     [prefix |-> <<"t","v",":">>,                             entity |-> "tvSeason"],
     [prefix |-> <<"a","p","p",":">>,                         entity |-> "software"] >>

countryMap ==
  <<
      [prefix |-> <<"u","k",":">>, code |-> <<"g","b">>], [prefix |-> <<"u","s",":">>, code |-> <<"u","s">>],
      [prefix |-> <<"c","a",":">>, code |-> <<"c","a">>], [prefix |-> <<"a","u",":">>, code |-> <<"a","u">>],
      [prefix |-> <<"f","r",":">>, code |-> <<"f","r">>], [prefix |-> <<"d","e",":">>, code |-> <<"d","e">>],
      [prefix |-> <<"j","p",":">>, code |-> <<"j","p">>], [prefix |-> <<"i","t",":">>, code |-> <<"i","t">>],
      [prefix |-> <<"e","s",":">>, code |-> <<"e","s">>], [prefix |-> <<"n","l",":">>, code |-> <<"n","l">>],
      [prefix |-> <<"b","r",":">>, code |-> <<"b","r">>], [prefix |-> <<"m","x",":">>, code |-> <<"m","x">>],
      [prefix |-> <<"r","u",":">>, code |-> <<"r","u">>], [prefix |-> <<"s","e",":">>, code |-> <<"s","e">>],
      [prefix |-> <<"c","n",":">>, code |-> <<"c","n">>], [prefix |-> <<"k","r",":">>, code |-> <<"k","r">>],
      [prefix |-> <<"i","n",":">>, code |-> <<"i","n">>], [prefix |-> <<"z","a",":">>, code |-> <<"z","a">>],
      [prefix |-> <<"n","o",":">>, code |-> <<"n","o">>], [prefix |-> <<"d","k",":">>, code |-> <<"d","k">>],
      [prefix |-> <<"f","i",":">>, code |-> <<"f","i">>], [prefix |-> <<"p","l",":">>, code |-> <<"p","l">>],
      [prefix |-> <<"a","t",":">>, code |-> <<"a","t">>], [prefix |-> <<"c","h",":">>, code |-> <<"c","h">>],
      [prefix |-> <<"b","e",":">>, code |-> <<"b","e">>], [prefix |-> <<"p","t",":">>, code |-> <<"p","t">>],
      [prefix |-> <<"g","r",":">>, code |-> <<"g","r">>], [prefix |-> <<"t","r",":">>, code |-> <<"t","r">>],
      [prefix |-> <<"a","r",":">>, code |-> <<"a","r">>], [prefix |-> <<"c","l",":">>, code |-> <<"c","l">>],
      [prefix |-> <<"c","o",":">>, code |-> <<"c","o">>], [prefix |-> <<"p","e",":">>, code |-> <<"p","e">>],
      [prefix |-> <<"e","g",":">>, code |-> <<"e","g">>], [prefix |-> <<"t","h",":">>, code |-> <<"t","h">>],
      [prefix |-> <<"i","d",":">>, code |-> <<"i","d">>], [prefix |-> <<"m","y",":">>, code |-> <<"m","y">>],
      [prefix |-> <<"s","g",":">>, code |-> <<"s","g">>], [prefix |-> <<"p","h",":">>, code |-> <<"p","h">>],
      [prefix |-> <<"v","n",":">>, code |-> <<"v","n">>], [prefix |-> <<"t","w",":">>, code |-> <<"t","w">>],
      [prefix |-> <<"h","k",":">>, code |-> <<"h","k">>], [prefix |-> <<"n","z",":">>, code |-> <<"n","z">>],
      [prefix |-> <<"i","e",":">>, code |-> <<"i","e">>], [prefix |-> <<"c","z",":">>, code |-> <<"c","z">>],
      [prefix |-> <<"s","k",":">>, code |-> <<"s","k">>], [prefix |-> <<"h","u",":">>, code |-> <<"h","u">>],
      [prefix |-> <<"r","o",":">>, code |-> <<"r","o">>], [prefix |-> <<"b","g",":">>, code |-> <<"b","g">>],
      [prefix |-> <<"h","r",":">>, code |-> <<"h","r">>], [prefix |-> <<"s","i",":">>, code |-> <<"s","i">>],
      [prefix |-> <<"l","t",":">>, code |-> <<"l","t">>], [prefix |-> <<"l","v",":">>, code |-> <<"l","v">>],
      [prefix |-> <<"e","e",":">>, code |-> <<"e","e">>], [prefix |-> <<"i","s",":">>, code |-> <<"i","s">>],
      [prefix |-> <<"l","u",":">>, code |-> <<"l","u">>], [prefix |-> <<"m","t",":">>, code |-> <<"m","t">>],
      [prefix |-> <<"c","y",":">>, code |-> <<"c","y">>]
  >>


(***************************************************************************)
(* urlPattern:                                                             *)
(*   /(https?:\/\/(itunes|apps|books)\.apple\.com\/[^\s]+\/id(\d+))/i      *)
(***************************************************************************)

Http == <<"h","t","t","p">>
Https == <<"h","t","t","p","s">>
SchemeSep == <<":","/","/">>
AppleCom == <<".","a","p","p","l","e",".","c","o","m","/">>
SlashId == <<"/","i","d">>

urlHosts == << <<"i","t","u","n","e","s">>, <<"a","p","p","s">>, <<"b","o","o","k","s">> >>

\* the position right after "http(s)://host.apple.com/" for a match attempt
\* starting at i, or 0 when the fixed head of the pattern does not match there
urlPathStart(s, i) ==
  LET a == IF OccursAtI(s, Https, i) THEN i + Len(Https) ELSE i + Len(Http)
      h == a + Len(SchemeSep)
      hosts == { k \in 1..Len(urlHosts) : OccursAtI(s, urlHosts[k] \o AppleCom, h) }
  IN  IF OccursAtI(s, Http, i) /\ OccursAtI(s, SchemeSep, a) /\ hosts # {}
        THEN h + Len(urlHosts[CHOOSE k \in hosts : TRUE]) + Len(AppleCom)
        ELSE 0

\* the positions q at which "/id" followed by a digit may start, with the
\* non-empty run [^\s]+ covering p..q-1
urlIdStarts(s, p) ==
  IF p = 0 THEN {}
  ELSE { q \in (p + 1)..Len(s) :
           /\ OccursAtI(s, SlashId, q)
           /\ q + Len(SlashId) <= Len(s)
           /\ s[q + Len(SlashId)] \in Digits
           /\ \A j \in p..(q - 1) : s[j] \notin WhiteSpace }

SetMin(S) == CHOOSE x \in S : \A y \in S : x <= y
SetMax(S) == CHOOSE x \in S : \A y \in S : x >= y

\* rawTerm.match(urlPattern): leftmost start, [^\s]+ greedy (last "/id"),
\* (\d+) greedy; url is group 1, id is group 3
urlMatch(s) ==
  LET starts == { i \in 1..Len(s) : urlIdStarts(s, urlPathStart(s, i)) # {} }
  IN  IF starts = {}
        THEN [found |-> FALSE, url |-> << >>, id |-> << >>]
        ELSE LET i == SetMin(starts)
                 q == SetMax(urlIdStarts(s, urlPathStart(s, i)))
                 d == q + Len(SlashId)
                 e == SetMax({ k \in d..Len(s) : \A j \in d..k : s[j] \in Digits })
             IN  [found |-> TRUE, url |-> SubSeq(s, i, e), id |-> SubSeq(s, d, e)]

\* faulty variant of urlEntityOf: the /tvshow/ alternative is forgotten
urlEntityOfNoTvShow(url) ==
  LET urlLower == toLowerCase(url)
  IN  IF includes(urlLower, <<"/","a","p","p","/">>) THEN "software"
      ELSE IF includes(urlLower, <<"/","m","o","v","i","e","/">>) THEN "movie"
      ELSE IF includes(urlLower, <<"/","t","v","-","s","e","a","s","o","n","/">>) THEN "tvSeason"
      ELSE IF includes(urlLower, <<"/","a","u","d","i","o","b","o","o","k","/">>) THEN "audiobook"
      ELSE IF includes(urlLower, <<"/","b","o","o","k","/">>) \/ includes(urlLower, <<"/","b","o","o","k","s","/">>) THEN "ebook"
      ELSE "album"

\* "Determine entity by URL path"
urlEntityOf(url) ==
  LET urlLower == toLowerCase(url)
  IN  IF includes(urlLower, <<"/","a","p","p","/">>) THEN "software"
      ELSE IF includes(urlLower, <<"/","m","o","v","i","e","/">>) THEN "movie"
      ELSE IF includes(urlLower, <<"/","t","v","-","s","e","a","s","o","n","/">>) \/ includes(urlLower, <<"/","t","v","s","h","o","w","/">>) THEN "tvSeason"
      ELSE IF includes(urlLower, <<"/","a","u","d","i","o","b","o","o","k","/">>) THEN "audiobook"
      ELSE IF includes(urlLower, <<"/","b","o","o","k","/">>) \/ includes(urlLower, <<"/","b","o","o","k","s","/">>) THEN "ebook"
      ELSE "album"

(***************************************************************************)
(* parseSearchTerm                                                         *)
(***************************************************************************)

DefaultCountry == <<"u","s">>

\* "Detect .png anywhere in the original term": [usePng, rawTerm]
detectPng(rawTerm) ==
  IF rawTerm # << >> /\ includes(toLowerCase(rawTerm), DotPng)
    THEN [usePng |-> TRUE,  rawTerm |-> trim(removePng(rawTerm))]
    ELSE [usePng |-> FALSE, rawTerm |-> rawTerm]

\* "remove .png again if present"
removePngAgain(searchTerm) ==
  IF searchTerm # << >> /\ includes(toLowerCase(searchTerm), DotPng)
    THEN trim(removePng(searchTerm))
    ELSE searchTerm

\* faulty variant of countryStep: the prefix test is made on the term as
\* entered instead of its lower-case form
countryStepCaseSensitive(searchTerm) ==
  LET hits == { k \in 1..Len(countryMap) : startsWith(searchTerm, countryMap[k].prefix) }
  IN  IF hits = {}
        THEN [countryCode |-> DefaultCountry, searchTerm |-> searchTerm]
        ELSE LET k == SetMin(hits)
             IN  [countryCode |-> countryMap[k].code,
                  searchTerm  |-> trim(stripPrefix(searchTerm, countryMap[k].prefix))]

\* faulty variant of countryStep: countryCode is left without its default
\* when no prefix matches
countryStepNoDefault(searchTerm) ==
  LET lowerTerm == toLowerCase(searchTerm)
      hits == { k \in 1..Len(countryMap) : startsWith(lowerTerm, countryMap[k].prefix) }
  IN  IF hits = {}
        THEN [countryCode |-> << >>, searchTerm |-> searchTerm]
        ELSE LET k == SetMin(hits)
             IN  [countryCode |-> countryMap[k].code,
                  searchTerm  |-> trim(stripPrefix(searchTerm, countryMap[k].prefix))]

\* "Check for country prefix": the first table entry the term starts with
countryStep(searchTerm) ==
  LET lowerTerm == toLowerCase(searchTerm)
      hits == { k \in 1..Len(countryMap) : startsWith(lowerTerm, countryMap[k].prefix) }
  IN  IF hits = {}
        THEN [countryCode |-> DefaultCountry, searchTerm |-> searchTerm]
        ELSE LET k == SetMin(hits)
             IN  [countryCode |-> countryMap[k].code,
                  searchTerm  |-> trim(stripPrefix(searchTerm, countryMap[k].prefix))]

\* "Check for entity prefix"
entityStep(searchTerm) ==
  LET lowerTerm == toLowerCase(searchTerm)
      hits == { k \in 1..Len(entityMap) : startsWith(lowerTerm, entityMap[k].prefix) }
  IN  IF hits = {}
        THEN [entity |-> "album", entityFound |-> FALSE, searchTerm |-> searchTerm]
        ELSE LET k == SetMin(hits)
             IN  [entity |-> entityMap[k].entity, entityFound |-> TRUE,
                  searchTerm |-> trim(stripPrefix(searchTerm, entityMap[k].prefix))]

\* faulty variant of attributeStep: the entityFound test is dropped, so the
\* attribute's default entity always replaces the entity
attributeStepAlwaysInfers(searchTerm, entity, entityFound) ==
  LET lowerTerm == toLowerCase(searchTerm)
      hits == { k \in 1..Len(attributeEntityMap) :
                  startsWith(lowerTerm, attributeEntityMap[k].prefix) }
  IN  IF hits = {}
        THEN [entity |-> entity, attribute |-> "", searchTerm |-> searchTerm]
        ELSE LET k == SetMin(hits)
             IN  [entity     |-> attributeEntityMap[k].entity,
                  attribute  |-> attributeEntityMap[k].attribute,
                  searchTerm |-> trim(stripPrefix(searchTerm, attributeEntityMap[k].prefix))]

\* "Check for attribute prefix (independent of entity prefix)"
attributeStep(searchTerm, entity, entityFound) ==
  LET lowerTerm == toLowerCase(searchTerm)
      hits == { k \in 1..Len(attributeEntityMap) :
                  startsWith(lowerTerm, attributeEntityMap[k].prefix) }
  IN  IF hits = {}
        THEN [entity |-> entity, attribute |-> "", searchTerm |-> searchTerm]
        ELSE LET k == SetMin(hits)
             IN  [entity     |-> IF entityFound THEN entity ELSE attributeEntityMap[k].entity,
                  attribute  |-> attributeEntityMap[k].attribute,
                  searchTerm |-> trim(stripPrefix(searchTerm, attributeEntityMap[k].prefix))]

\* faulty variant of parsePrefixes: the entity prefix is looked for before
\* the country prefix
parsePrefixesKindFirst(searchTerm, usePng) ==
  LET e == entityStep(searchTerm)
      c == countryStep(e.searchTerm)
      a == attributeStep(c.searchTerm, e.entity, e.entityFound)
  IN  [searchTerm |-> a.searchTerm, entity |-> a.entity, countryCode |-> c.countryCode,
       usePng |-> usePng, attribute |-> a.attribute, lookupMode |-> FALSE]

\* "Parse prefixes from search term only if not parsed from URL"
parsePrefixes(searchTerm, usePng) ==
  LET c == countryStep(searchTerm)
      e == entityStep(c.searchTerm)
      a == attributeStep(e.searchTerm, e.entity, e.entityFound)
  IN  [searchTerm |-> a.searchTerm, entity |-> a.entity, countryCode |-> c.countryCode,
       usePng |-> usePng, attribute |-> a.attribute, lookupMode |-> FALSE]

\* the value returned by parseSearchTerm(rawTerm); its attribute field is also
\* what the call stores in window.attribute
parseSearchTerm(rawTerm) ==
  LET png == detectPng(rawTerm)
      searchTerm == removePngAgain(png.rawTerm)
      m == urlMatch(png.rawTerm)
  IN  IF m.found
        THEN [searchTerm |-> m.id, entity |-> urlEntityOf(m.url),
              countryCode |-> DefaultCountry, usePng |-> png.usePng,
              attribute |-> "", lookupMode |-> TRUE]
        ELSE parsePrefixes(searchTerm, png.usePng)


(***************************************************************************)
(* The catalog requests.                                                   *)
(***************************************************************************)

\* a request parameter that is not set
NoParam == ""

\* entityToMediaMap of fetchResultsProxy and its fallback branch
proxyMediaOf(entity) ==
  CASE entity = "audiobook" -> "audiobook"
    [] entity = "ebook"     -> "ebook"
    [] entity = "movie"     -> "movie"
    [] entity = "song"      -> "music"
    [] entity = "album"     -> "music"
    [] entity = "software"  -> "software"
    [] OTHER                -> "music"

\* fetchResultsProxy without the attribute parameter
fetchResultsProxyNoAttribute(term, entity, country, attributeGlobal) ==
  [endpoint |-> "search", term |-> term, country |-> country, limit |-> "60",
   media |-> proxyMediaOf(entity), entity |-> entity,
   attribute |-> NoParam]

\* the parameters fetchResultsProxy sends to the search endpoint, the
\* attribute being the one it reads from window.attribute
fetchResultsProxy(term, entity, country, attributeGlobal) ==
  [endpoint |-> "search", term |-> term, country |-> country, limit |-> "60",
   media |-> proxyMediaOf(entity), entity |-> entity,
   attribute |-> IF attributeGlobal # "" THEN attributeGlobal ELSE NoParam]

\* the parameters fetchResultsLookup sends to the lookup endpoint
fetchResultsLookup(id, country) ==
  [endpoint |-> "lookup", term |-> id, country |-> country, limit |-> NoParam,
   media |-> NoParam, entity |-> NoParam, attribute |-> NoParam]

\* the request performSearch issues; hasArg4 tells whether a fifth argument
\* (the parsed object) was passed, arg4LookupMode is its lookupMode field
performSearch(searchTerm, entity, countryCode, hasArg4, arg4LookupMode, attributeGlobal) ==
  LET lookupMode == hasArg4 /\ arg4LookupMode
  IN  IF lookupMode
        THEN fetchResultsLookup(searchTerm, countryCode)
        ELSE fetchResultsProxy(searchTerm, entity, countryCode, attributeGlobal)

(***************************************************************************)
(* The artwork links of displayResults.                                    *)
(***************************************************************************)

DotJpg == <<".","j","p","g">>

Dash999 == <<"-","9","9","9">>

\* the extensions of /bb(\.(jpg|png|webp|tif))$/
MarkerExtensions == { <<".","j","p","g">>, <<".","p","n","g">>, <<".","w","e","b","p">>, <<".","t","i","f">> }

\* the extensions of /\.(png|webp|tif)$/
OtherExtensions == { <<".","p","n","g">>, <<".","w","e","b","p">>, <<".","t","i","f">> }

\* String.prototype.endsWith
endsWith(s, p) == OccursAt(s, p, Len(s) - Len(p) + 1)

\* the first position at or after i that holds no digit
digitsEnd(s, i) == SetMin({j \in i..(Len(s) + 1) : j = Len(s) + 1 \/ s[j] \notin Digits})

\* does /(\/)\d+x\d+/ match s at position i
sizeTokenAt(s, i) ==
  /\ s[i] = "/"
  /\ digitsEnd(s, i + 1) > i + 1
  /\ digitsEnd(s, i + 1) <= Len(s)
  /\ s[digitsEnd(s, i + 1)] = "x"
  /\ digitsEnd(s, digitsEnd(s, i + 1) + 1) > digitsEnd(s, i + 1) + 1

\* the first position behind the match of /(\/)\d+x\d+(bb)?/ at position i
sizeTokenEnd(s, i) ==
  LET e == digitsEnd(s, digitsEnd(s, i + 1) + 1)
  IN  IF OccursAt(s, <<"b","b">>, e) THEN e + 2 ELSE e

\* jpgToPng appending the extension instead of replacing it
jpgToPngAppends(s) == IF endsWith(s, DotJpg) THEN s \o DotPng ELSE s

\* s.replace(/\.jpg$/, '.png')
jpgToPng(s) == IF endsWith(s, DotJpg) THEN SubSeq(s, 1, Len(s) - 4) \o DotPng ELSE s

\* s.replace(pattern, replacement) for a literal pattern: the first occurrence
replaceFirst(s, pattern, replacement) ==
  LET at == {i \in 1..Len(s) : OccursAt(s, pattern, i)}
  IN  IF at = {} THEN s
      ELSE SubSeq(s, 1, SetMin(at) - 1) \o replacement
             \o SubSeq(s, SetMin(at) + Len(pattern), Len(s))

\* fixArtworkUrl forgetting the -999 marker
fixArtworkUrlNoMarker(url, size, usePng) ==
  LET at == {i \in 1..Len(url) : sizeTokenAt(url, i)}
      newUrl == IF at = {} THEN url
                ELSE SubSeq(url, 1, SetMin(at)) \o size \o <<"x">> \o size
                       \o SubSeq(url, sizeTokenEnd(url, SetMin(at)), Len(url))
      withJpg == IF endsWith(newUrl, DotJpg) THEN newUrl ELSE newUrl \o DotJpg
  IN  IF usePng THEN jpgToPng(withJpg) ELSE withJpg

\* fixArtworkUrl(url, size) of displayResults, usePng being its free variable
fixArtworkUrl(url, size, usePng) ==
  LET at == {i \in 1..Len(url) : sizeTokenAt(url, i)}
      newUrl == IF at = {} THEN url
                ELSE SubSeq(url, 1, SetMin(at)) \o size \o <<"x">> \o size \o Dash999
                       \o SubSeq(url, sizeTokenEnd(url, SetMin(at)), Len(url))
      withJpg == IF endsWith(newUrl, DotJpg) THEN newUrl ELSE newUrl \o DotJpg
  IN  IF usePng THEN jpgToPng(withJpg) ELSE withJpg

HttpsScheme == <<"h","t","t","p","s",":","/","/">>

ThumbMarker == <<".","m","z","s","t","a","t","i","c",".","c","o","m","/","i","m","a","g","e","/","t","h","u","m","b","/">>

HdPrefix == <<"h","t","t","p","s",":","/","/","a","1",".","m","z","s","t","a","t","i","c",".","c","o","m","/","u","s","/","r","1","0","0","0","/","0","6","3","/">>

\* the positions where `.mzstatic.com/image/thumb/` may stand in a match of
\* /^https:\/\/.*?\.mzstatic\.com\/image\/thumb\/(.*)\/.*\.(jpg|png)$/
thumbMarkerStarts(s) ==
  IF /\ startsWith(s, HttpsScheme)
     /\ (endsWith(s, DotJpg) \/ endsWith(s, DotPng))
     /\ \A i \in 1..Len(s) : s[i] # "\n"
    THEN {j \in (Len(HttpsScheme) + 1)..Len(s) :
            /\ OccursAt(s, ThumbMarker, j)
            /\ \E m \in (j + Len(ThumbMarker))..(Len(s) - 4) : s[m] = "/"}
    ELSE {}

\* the replacement of that pattern by the high-resolution host and $1; the
\* lazy .*? takes the first position, the greedy (.*) runs to the last slash
hdRewrite(s) ==
  IF thumbMarkerStarts(s) = {} THEN s
  ELSE LET k == SetMin(thumbMarkerStarts(s)) + Len(ThumbMarker)
           m == SetMax({m \in k..(Len(s) - 4) : s[m] = "/"})
       IN  HdPrefix \o SubSeq(s, k, m - 1)

\* s.replace(/bb(\.(jpg|png|webp|tif))$/, '$1')
stripBbBeforeExtension(s) ==
  IF \E e \in MarkerExtensions : endsWith(s, <<"b","b">> \o e)
    THEN LET e == CHOOSE e \in MarkerExtensions : endsWith(s, <<"b","b">> \o e)
         IN  SubSeq(s, 1, Len(s) - Len(e) - 2) \o e
    ELSE s

\* stripBbInLastSegment taking out every bb of the path
RECURSIVE stripBbEverywhere(_)
stripBbEverywhere(s) ==
  IF includes(s, <<"b","b">>) /\ s # replaceFirst(s, <<"b","b">>, << >>)
    THEN stripBbEverywhere(replaceFirst(s, <<"b","b">>, << >>))
    ELSE s

\* s.replace(/\/([^\/]*?)bb(\.(jpg|png|webp|tif))$/, '/$1$2')
stripBbInLastSegment(s) ==
  IF \E i \in 1..Len(s) : s[i] = "/" THEN stripBbBeforeExtension(s) ELSE s

\* artworkUrl5000
artworkUrl5000Of(artworkUrl100, usePng) ==
  stripBbInLastSegment(hdRewrite(fixArtworkUrl(artworkUrl100, <<"1","0","0","0","0">>, usePng)))

\* s.replace(/bb(?=\.jpg)/, '')
stripBbBeforeJpg(s) == replaceFirst(s, <<"b","b",".","j","p","g">>, DotJpg)

\* artworkUrl1467x2200
artworkUrl1467x2200Of(artworkUrl100, usePng) ==
  LET sized == replaceFirst(artworkUrl100, <<"1","0","0","x","1","0","0">>, <<"1","4","6","7","x","2","2","0","0">>)
      noBb == stripBbBeforeJpg(sized)
      marked == replaceFirst(noBb, <<"1","4","6","7","x","2","2","0","0",".","j","p","g">>, <<"1","4","6","7","x","2","2","0","0","-","9","9","9",".","j","p","g">>)
      withJpg == IF endsWith(marked, DotJpg) THEN marked
                 ELSE IF endsWith(marked, Dash999) THEN marked \o DotJpg
                 ELSE marked \o Dash999 \o DotJpg
  IN  IF usePng THEN jpgToPng(withJpg) ELSE withJpg

\* movieHdUrl re-rooted under the high-resolution host like the other kinds
movieHdUrlReRooted(artworkUrl100, usePng) ==
  LET sized == hdRewrite(replaceFirst(artworkUrl100, <<"1","0","0","x","1","0","0">>, <<"1","0","0","0","0","x","1","0","0","0","0","-","9","9","9">>))
      noBb == stripBbBeforeExtension(sized)
      withJpg == IF endsWith(noBb, DotJpg) THEN noBb ELSE noBb \o DotJpg
  IN  IF usePng THEN jpgToPng(withJpg) ELSE withJpg

\* movieHdUrl of the movie branch
movieHdUrlOf(artworkUrl100, usePng) ==
  LET sized == replaceFirst(artworkUrl100, <<"1","0","0","x","1","0","0">>, <<"1","0","0","0","0","x","1","0","0","0","0","-","9","9","9">>)
      noBb == stripBbBeforeExtension(sized)
      noExt == IF \E e \in OtherExtensions : endsWith(noBb, e)
                 THEN LET e == CHOOSE e \in OtherExtensions : endsWith(noBb, e)
                      IN  SubSeq(noBb, 1, Len(noBb) - Len(e))
                 ELSE noBb
      withJpg == IF endsWith(noBb, DotJpg) THEN noBb
                 ELSE IF endsWith(noExt, DotJpg) THEN noExt
                 ELSE noExt \o DotJpg
  IN  IF usePng THEN jpgToPng(withJpg) ELSE withJpg

\* tvHdUrl of the tvSeason branch
tvHdUrlOf(artworkUrl100, usePng) ==
  LET sized == replaceFirst(artworkUrl100, <<"1","0","0","x","1","0","0">>, <<"1","0","0","0","0","x","1","0","0","0","0","-","9","9","9">>)
      noBb == stripBbBeforeExtension(sized)
      noExt == IF \E e \in OtherExtensions : endsWith(noBb, e)
                 THEN LET e == CHOOSE e \in OtherExtensions : endsWith(noBb, e)
                      IN  SubSeq(noBb, 1, Len(noBb) - Len(e))
                 ELSE noBb
      withJpg == IF endsWith(noBb, DotJpg) THEN noBb
                 ELSE IF endsWith(noExt, DotJpg) THEN noExt
                 ELSE noExt \o DotJpg
  IN  IF usePng THEN jpgToPng(withJpg) ELSE withJpg

\* appHdUrl
appHdUrlOf(artworkUrl100, usePng) ==
  LET hd == artworkUrl5000Of(artworkUrl100, usePng)
  IN  IF usePng THEN jpgToPng(hd) ELSE hd

Link(label, url) == [label |-> label, url |-> url]

\* linksOf without the audiobook branch
linksOfNoAudiobook(artworkUrl100, entity, usePng) ==
  CASE entity = "ebook" ->
         << Link("2200", artworkUrl1467x2200Of(artworkUrl100, usePng)),
            Link("HD", artworkUrl5000Of(artworkUrl100, usePng)) >>
    [] entity = "movie" ->
         << Link("HD", movieHdUrlOf(artworkUrl100, usePng)) >>
    [] entity = "tvSeason" ->
         << Link("HD", tvHdUrlOf(artworkUrl100, usePng)) >>
    [] entity = "software" ->
         << Link("HD", appHdUrlOf(artworkUrl100, usePng)) >>
    [] OTHER ->
         << Link("600", fixArtworkUrl(artworkUrl100, <<"6","0","0">>, usePng)),
            Link("1500", fixArtworkUrl(artworkUrl100, <<"1","5","0","0">>, usePng)),
            Link("3000", fixArtworkUrl(artworkUrl100, <<"3","0","0","0">>, usePng)),
            Link("HD", artworkUrl5000Of(artworkUrl100, usePng)) >>

\* linksHtml: the download links of one result, in the order of the markup
linksOf(artworkUrl100, entity, usePng) ==
  CASE entity = "audiobook" ->
         << Link("3000", fixArtworkUrl(artworkUrl100, <<"3","0","0","0">>, usePng)),
            Link("HD", artworkUrl5000Of(artworkUrl100, usePng)) >>
    [] entity = "ebook" ->
         << Link("2200", artworkUrl1467x2200Of(artworkUrl100, usePng)),
            Link("HD", artworkUrl5000Of(artworkUrl100, usePng)) >>
    [] entity = "movie" ->
         << Link("HD", movieHdUrlOf(artworkUrl100, usePng)) >>
    [] entity = "tvSeason" ->
         << Link("HD", tvHdUrlOf(artworkUrl100, usePng)) >>
    [] entity = "software" ->
         << Link("HD", appHdUrlOf(artworkUrl100, usePng)) >>
    [] OTHER ->
         << Link("600", fixArtworkUrl(artworkUrl100, <<"6","0","0">>, usePng)),
            Link("1500", fixArtworkUrl(artworkUrl100, <<"1","5","0","0">>, usePng)),
            Link("3000", fixArtworkUrl(artworkUrl100, <<"3","0","0","0">>, usePng)),
            Link("HD", artworkUrl5000Of(artworkUrl100, usePng)) >>

\* the card displayResults renders for one result: the preview image and
\* the download links
cardOf(artworkUrl100, entity, usePng) ==
  [preview |-> fixArtworkUrl(artworkUrl100, <<"3","0","0">>, usePng),
   links |-> linksOf(artworkUrl100, entity, usePng)]

(***************************************************************************)
(* The display title of displayResults.                                    *)
(***************************************************************************)

\* characters matched by \w
WordChars ==
  {UpperChars[i] : i \in 1..26} \cup {LowerChars[i] : i \in 1..26} \cup Digits \cup {"_"}

\* \b between positions i - 1 and i of s
wordBoundary(s, i) ==
  LET before == i > 1 /\ s[i - 1] \in WordChars
      after  == i <= Len(s) /\ s[i] \in WordChars
  IN  before # after

\* /\bword\b/i.test(s)
testWholeWord(s, word) ==
  \E i \in 1..Len(s) :
    /\ OccursAtI(s, word, i)
    /\ wordBoundary(s, i)
    /\ wordBoundary(s, i + Len(word))

\* the start of the white space that ends before position i of s
RECURSIVE spacesStart(_, _)
spacesStart(s, i) ==
  IF i > 1 /\ s[i - 1] \in WhiteSpace THEN spacesStart(s, i - 1) ELSE i

\* where /\s*-?\s*word\b/i starts to match when its word is at position p
separatorStart(s, p) ==
  LET afterHyphen == spacesStart(s, p)
      hyphen      == IF afterHyphen > 1 /\ s[afterHyphen - 1] = "-"
                       THEN afterHyphen - 1 ELSE afterHyphen
  IN  spacesStart(s, hyphen)

\* is position p of s the word of a match of /\s*-?\s*word\b/i
wordEndsAt(s, word, p) == OccursAtI(s, word, p) /\ wordBoundary(s, p + Len(word))

\* s.replace(/\s*-?\s*word\b/i, ''): the leftmost match is the one of the
\* first position where the word ends at a word boundary
removeMarker(s, word) ==
  IF \E p \in 1..Len(s) : wordEndsAt(s, word, p)
    THEN LET p == CHOOSE q \in 1..Len(s) :
                    /\ wordEndsAt(s, word, q)
                    /\ \A r \in 1..(q - 1) : ~wordEndsAt(s, word, r)
         IN  SubSeq(s, 1, separatorStart(s, p) - 1) \o SubSeq(s, p + Len(word), Len(s))
    ELSE s

EpWord == <<"E","P">>

SingleWord == <<"S","i","n","g","l","e">>

EpTag == <<" ","[","E","P","]">>

SingleTag == <<" ","[","S","i","n","g","l","e","]">>

\* displayTitle of displayResults for a result with this collectionName
displayTitleOf(collectionName, entity) ==
  IF entity # "album" THEN collectionName
  ELSE IF testWholeWord(collectionName, EpWord)
    THEN trim(removeMarker(collectionName, EpWord)) \o EpTag
  ELSE IF testWholeWord(collectionName, SingleWord)
    THEN trim(removeMarker(collectionName, SingleWord)) \o SingleTag
  ELSE collectionName

(***************************************************************************)
(* The responses of the catalog, and what performSearch does with them.    *)
(***************************************************************************)

\* the proxy handler of api/itunes.js: the status it answers with, given how
\* its own request to the catalog went
handler(upstream) == IF upstream = "ok" THEN 200 ELSE 500

\* thumbnail addresses are made of a host part, the directories, and the
\* name, marker and extension of the last path segment
ThumbBase == <<"h","t","t","p","s",":","/","/","a",".","m","z","s","t","a","t","i","c",".","c","o","m","/","i","m","a","g","e","/","t","h","u","m","b","/">>

OtherBase == <<"h","t","t","p","s",":","/","/","x",".","c","o","/">>

FirstDir == <<"M","/","a",".","j","p","g","/">>

BbDir == <<"M","b","b","/","a","b","b",".","j","p","g","/">>

HundredName == <<"1","0","0","x","1","0","0">>

SixtyName == <<"6","0","x","6","0">>

PlainName == <<"a">>

BbMarker == <<"b","b">>

\* the thumbnails tried, as token sequences <<host, directories, name,
\* marker, extension>>: thumbnails of the catalog's image host with and
\* without size token, marker and extension, thumbnails of another host, and
\* maximum-resolution addresses
ThumbTokens ==
  { <<ThumbBase, d, HundredName, m, e>> :
      d \in {FirstDir, BbDir}, m \in {BbMarker, << >>}, e \in {DotJpg, DotPng, << >>} }
  \cup { <<ThumbBase, FirstDir, n, m, e>> :
      n \in {SixtyName, PlainName}, m \in {BbMarker, << >>}, e \in {DotJpg, << >>} }
  \cup { <<OtherBase, FirstDir, n, BbMarker, e>> :
      n \in {HundredName, PlainName}, e \in {DotJpg, DotPng} }
  \cup { <<HdPrefix, FirstDir, PlainName, << >>, e>> : e \in {DotJpg, DotPng} }

\* a result record without artworkUrl100
NoArtwork == << >>

\* collection names are made of words and of the separators between them
PlainWord == <<"x">>

DeepWord == <<"D","e","e","p">>

SpaceSeparator == <<" ">>

HyphenSeparator == <<" ","-"," ">>

\* the collection name of the results whose title is not looked at
PlainTitle == << PlainWord >>

\* the collection names tried, as sequences of words and separators: one
\* word, a word followed by a marker or by another word, and both markers
\* after a word
TitleTokens ==
  { <<w>> : w \in {PlainWord, DeepWord, EpWord, SingleWord} }
  \cup { <<w, sep, m>> : w \in {PlainWord, DeepWord, EpWord},
                         sep \in {SpaceSeparator, HyphenSeparator},
                         m \in {EpWord, SingleWord, PlainWord} }
  \cup { <<PlainWord, SpaceSeparator, m, HyphenSeparator, n>> :
            m \in {EpWord, SingleWord}, n \in {EpWord, SingleWord} }

\* the answers tried: how the request went, what the JSON body holds and the
\* artworkUrl100 tokens and the collectionName of its one result record
Responses ==
  { [net |-> n, body |-> "none", artwork |-> NoArtwork, collectionName |-> PlainTitle] :
      n \in {"fetchThrows", "upstreamThrows", "upstreamNotOk"} }
  \cup { [net |-> "ok", body |-> b, artwork |-> NoArtwork, collectionName |-> PlainTitle] :
           b \in {"noResultsField", "emptyResults", "records"} }
  \cup { [net |-> "ok", body |-> "records", artwork |-> t, collectionName |-> PlainTitle] :
           t \in ThumbTokens }

\* answers with one result record each, over the collection names tried
TitledResponses ==
  { [net |-> "ok", body |-> "records",
     artwork |-> <<ThumbBase, FirstDir, HundredName, BbMarker, DotJpg>>,
     collectionName |-> n] : n \in TitleTokens }

NoResponse == [net |-> "", body |-> "", artwork |-> NoArtwork, collectionName |-> PlainTitle]

\* the results container
Display(outcome, error, cards) == [outcome |-> outcome, error |-> error, cards |-> cards]

BlankDisplay == Display("blank", "", << >>)

\* the arguments of a performSearch call that awaits its answer
Call(entity, usePng, loaderStartTime, lookupMode) ==
  [entity |-> entity, usePng |-> usePng, loaderStartTime |-> loaderStartTime,
   lookupMode |-> lookupMode]

\* no call
NoCall == Call("", FALSE, FALSE, FALSE)

\* the delay of the timer of the submit handler, in milliseconds
TimerDelay == 900

\* minDuration of ensureMinimumLoaderDuration, in milliseconds
MinDuration == 1000

\* the result of an arithmetic operation on an operand that is not a number
NaN == -1

\* ensureMinimumLoaderDuration(startTime): the milliseconds it waits.  The
\* startTime is the fifth argument of performSearch, which is missing on the
\* page-load path and is the parsed object on the submit path, so that
\* Date.now() - startTime is not a number and compares false with minDuration
ensureMinimumLoaderDuration(startTime) ==
  IF ~startTime THEN 0
  ELSE LET elapsed == NaN
       IN  IF elapsed # NaN /\ elapsed < MinDuration THEN MinDuration - elapsed ELSE 0

\* the message of the error that fetchResultsProxy or fetchResultsLookup
\* throws; "" when the call returns the body
errorOf(call, resp) ==
  IF call.lookupMode
    THEN CASE resp.net = "ok"            -> ""
           [] resp.net = "upstreamNotOk" -> "Lookup API returned 503"
           [] OTHER                      -> "Failed to fetch"
    ELSE CASE resp.net = "fetchThrows"   -> "Failed to fetch"
           [] handler(IF resp.net = "ok" THEN "ok" ELSE "failed") = 200 -> ""
           [] OTHER                      -> "Proxy returned 500"


(***************************************************************************)
(* State.                                                                  *)
(***************************************************************************)

VARIABLES
  tokens,           \* what the user has entered as the query, token by token
  timer,            \* rawSearchTerm captured by the pending submit timer
  submitDisabled,   \* submitBtn.disabled
  windowAttribute,  \* window.attribute
  windowUsePng,     \* window.usePng
  origin,           \* how the latest search was started: none, submit, load
  rawArg,           \* argument of the latest parseSearchTerm call
  parsed,           \* value returned by the latest parseSearchTerm call
  request,          \* the latest catalog request sent
  pending,          \* the performSearch calls that await their answer
  response,         \* the latest answer handled since the latest call started
  display,          \* what the results container shows
  shownCall,        \* the performSearch call that wrote what the container shows
  sinceLoaderStart  \* milliseconds since the latest loaderStartTime was taken

vars == <<tokens, timer, submitDisabled, windowAttribute, windowUsePng,
          origin, rawArg, parsed, request, pending, response, display,
          shownCall, sinceLoaderStart>>

\* number of tokens the user enters into one query
MaxTokens == 3

RECURSIVE Flatten(_)
Flatten(ts) == IF ts = << >> THEN << >> ELSE Head(ts) \o Flatten(Tail(ts))

\* searchInput.value, which is also the term parameter of a page address
searchInputValue == Flatten(tokens)

NoTimer == << >>

NoParse == [searchTerm |-> << >>, entity |-> "", countryCode |-> << >>,
            usePng |-> FALSE, attribute |-> "", lookupMode |-> FALSE]

NoRequest == [endpoint |-> "", term |-> << >>, country |-> << >>, limit |-> NoParam,
              media |-> NoParam, entity |-> NoParam, attribute |-> NoParam]

\* the page as loaded without a term parameter
Init ==
  /\ tokens = << >>
  /\ timer = NoTimer
  /\ submitDisabled = FALSE
  /\ windowAttribute = ""
  /\ windowUsePng = FALSE
  /\ origin = "none"
  /\ rawArg = << >>
  /\ parsed = NoParse
  /\ request = NoRequest
  /\ pending = {}
  /\ response = NoResponse
  /\ display = BlankDisplay
  /\ shownCall = NoCall
  /\ sinceLoaderStart = 0

(***************************************************************************)
(* Actions.                                                                *)
(***************************************************************************)

\* the user enters one more token of the query; the query is entered before
\* the search is started
Type(t) ==
  /\ Len(tokens) < MaxTokens
  /\ timer = NoTimer
  /\ origin = "none"
  /\ tokens' = Append(tokens, t)
  /\ UNCHANGED <<timer, submitDisabled, windowAttribute, windowUsePng,
                 origin, rawArg, parsed, request, pending, response, display,
                 shownCall, sinceLoaderStart>>

\* the submit handler of searchForm: trims the input, disables the button
\* and starts the timer that will run the search
Submit ==
  LET rawSearchTerm == trim(searchInputValue)
  IN  /\ ~submitDisabled
      /\ rawSearchTerm # << >>
      /\ timer' = rawSearchTerm
      /\ submitDisabled' = TRUE
      /\ sinceLoaderStart' = 0
      /\ UNCHANGED <<tokens, windowAttribute, windowUsePng, origin, rawArg, parsed,
                     request, pending, response, display, shownCall>>

\* the timer callback of the submit handler, which runs once the delay of
\* the timer has passed: parse, then performSearch with the parsed object as
\* fifth argument
TimerFires ==
  /\ timer # NoTimer
  /\ \E parsedSearch \in {parseSearchTerm(timer)} :
      /\ timer' = NoTimer
      /\ rawArg' = timer
      /\ parsed' = parsedSearch
      /\ windowAttribute' = parsedSearch.attribute
      /\ origin' = "submit"
      /\ request' = performSearch(parsedSearch.searchTerm, parsedSearch.entity,
                                  parsedSearch.countryCode, TRUE, parsedSearch.lookupMode,
                                  windowAttribute')
      /\ pending' = pending \cup {Call(parsedSearch.entity, parsedSearch.usePng, TRUE,
                                        parsedSearch.lookupMode)}
      /\ display' = Display("loading", "", << >>)
      /\ shownCall' = Call(parsedSearch.entity, parsedSearch.usePng, TRUE,
                           parsedSearch.lookupMode)
      /\ response' = NoResponse
      /\ sinceLoaderStart' = (IF sinceLoaderStart < TimerDelay THEN TimerDelay
                                                                ELSE sinceLoaderStart)
      /\ UNCHANGED <<tokens, submitDisabled, windowUsePng>>

\* country parameters of the page address tried (the empty one: no parameter)
LocationCountries == { << >>, <<"c","a">> }

\* onload for a page address whose term parameter is the entered query, with
\* or without a country parameter: parse, then performSearch with four
\* arguments
LoadPage ==
  /\ searchInputValue # << >>
  /\ \E term \in {searchInputValue} : \E p \in {parseSearchTerm(term)} :
     \E country \in LocationCountries :
       LET countryCode == IF country # << >> THEN country ELSE p.countryCode
       IN  /\ timer' = NoTimer
           /\ submitDisabled' = FALSE
           /\ rawArg' = term
           /\ parsed' = p
           /\ windowAttribute' = p.attribute
           /\ windowUsePng' = p.usePng
           /\ origin' = "load"
           /\ request' = performSearch(p.searchTerm, p.entity, countryCode, FALSE, FALSE,
                                       windowAttribute')
           /\ pending' = {Call(p.entity, p.usePng, FALSE, FALSE)}
           /\ response' = NoResponse
           /\ display' = BlankDisplay
           /\ shownCall' = NoCall
           /\ sinceLoaderStart' = 0
           /\ UNCHANGED tokens

\* click on the title: the page is loaded again without parameters
TitleClick ==
  /\ tokens' = << >>
  /\ timer' = NoTimer
  /\ submitDisabled' = FALSE
  /\ windowAttribute' = ""
  /\ windowUsePng' = FALSE
  /\ origin' = "none"
  /\ rawArg' = << >>
  /\ parsed' = NoParse
  /\ request' = NoRequest
  /\ pending' = {}
  /\ response' = NoResponse
  /\ display' = BlankDisplay
  /\ shownCall' = NoCall
  /\ sinceLoaderStart' = 0


(***************************************************************************)
(* Specifications: the same handlers, over different vocabularies of the   *)
(* tokens the user may enter.                                              *)
(***************************************************************************)

\* prefixes of the three categories in several letter cases, a word, white
\* space and the format modifier
GrammarTokens ==
  { <<"u","k",":">>, <<"J","P",":">>, <<"t","v",":">>, <<"A","r","t","i","s","t",":">>, <<"x">>, <<" ">>, <<".","p","n","g">> }

Next ==
  \/ \E t \in GrammarTokens : Type(t)
  \/ Submit
  \/ TimerFires
  \/ LoadPage
  \/ TitleClick

Spec == Init /\ [][Next]_vars

\* every attribute prefix, a media-kind prefix and a word
KindTokens ==
  { <<"t","v",":">>,
    <<"a","r","t","i","s","t",":">>, <<"t","i","t","l","e",":">>, <<"a","u","t","h","o","r",":">>,
    <<"d","i","r","e","c","t","o","r",":">>, <<"a","c","t","o","r",":">>, <<"c","o","m","p","o","s","e","r",":">>, <<"x">> }

NextKinds ==
  \/ \E t \in KindTokens : Type(t)
  \/ Submit
  \/ TimerFires
  \/ LoadPage
  \/ TitleClick

SpecKinds == Init /\ [][NextKinds]_vars

\* the country codes of the README's list of country prefixes
ReadmeCountryCodes ==
  {
    <<"a","r">>, <<"a","t">>, <<"a","u">>, <<"b","e">>, <<"b","g">>, <<"b","r">>, <<"c","a">>, <<"c","h">>,
    <<"c","l">>, <<"c","n">>, <<"c","o">>, <<"c","y">>, <<"c","z">>, <<"d","e">>, <<"d","k">>, <<"e","e">>,
    <<"e","g">>, <<"e","s">>, <<"f","i">>, <<"f","r">>, <<"g","r">>, <<"h","r">>, <<"h","k">>, <<"h","u">>,
    <<"i","d">>, <<"i","e">>, <<"i","n">>, <<"i","s">>, <<"i","t">>, <<"j","p">>, <<"k","r">>, <<"l","t">>,
    <<"l","u">>, <<"l","v">>, <<"m","t">>, <<"m","x">>, <<"m","y">>, <<"n","l">>, <<"n","o">>, <<"n","z">>,
    <<"p","e">>, <<"p","h">>, <<"p","l">>, <<"p","t">>, <<"r","o">>, <<"r","u">>, <<"s","e">>, <<"s","g">>,
    <<"s","i">>, <<"s","k">>, <<"t","h">>, <<"t","r">>, <<"t","w">>, <<"u","k">>, <<"u","s">>, <<"v","n">>,
    <<"z","a">>
  }

\* a country prefix in its four letter cases
CaseVariants(code) ==
  { <<a, b, ":">> : a \in {code[1], CanonChar(code[1])}, b \in {code[2], CanonChar(code[2])} }

CountryPrefixTokens == UNION { CaseVariants(code) : code \in ReadmeCountryCodes }

WordTokens == { <<"x">>, <<" ">> }

\* a query that starts with a country prefix of the README
NextCountry ==
  \/ \E t \in (IF tokens = << >> THEN CountryPrefixTokens ELSE WordTokens) : Type(t)
  \/ Submit
  \/ TimerFires
  \/ LoadPage
  \/ TitleClick

SpecCountry == Init /\ [][NextCountry]_vars

\* pieces of the format modifier that join into a new one when an inner
\* occurrence is removed
PngTokens == { <<".","p","n","g">>, <<".","p">>, <<"n","g">>, <<".","p",".","p">>, <<"n","g","n","g">>, <<"x">> }

NextPng ==
  \/ \E t \in PngTokens : Type(t)
  \/ Submit
  \/ TimerFires
  \/ LoadPage
  \/ TitleClick

SpecPng == Init /\ [][NextPng]_vars

\* storefront addresses: every host of the pattern, every path segment the
\* parser distinguishes, and one without any of them
UrlTokens ==
  { <<"h","t","t","p","s",":","/","/","a","p","p","s",".","a","p","p","l","e",".","c","o","m","/","u","s","/","a","p","p","/","x","/","i","d","1">>,
    <<"h","t","t","p",":","/","/","i","t","u","n","e","s",".","a","p","p","l","e",".","c","o","m","/","u","s","/","m","o","v","i","e","/","x","/","i","d","1">>,
    <<"H","T","T","P","S",":","/","/","B","o","o","k","s",".","A","p","p","l","e",".","c","o","m","/","u","s","/","b","o","o","k","/","x","/","i","d","1">>,
    <<"h","t","t","p","s",":","/","/","b","o","o","k","s",".","a","p","p","l","e",".","c","o","m","/","b","o","o","k","s","/","x","/","i","d","1">>,
    <<"h","t","t","p","s",":","/","/","i","t","u","n","e","s",".","a","p","p","l","e",".","c","o","m","/","u","s","/","t","v","-","s","e","a","s","o","n","/","x","/","i","d","1">>,
    <<"h","t","t","p","s",":","/","/","i","t","u","n","e","s",".","a","p","p","l","e",".","c","o","m","/","u","s","/","t","v","s","h","o","w","/","x","/","i","d","1">>,
    <<"h","t","t","p","s",":","/","/","b","o","o","k","s",".","a","p","p","l","e",".","c","o","m","/","u","s","/","a","u","d","i","o","b","o","o","k","/","x","/","i","d","1">>,
    <<"h","t","t","p","s",":","/","/","i","t","u","n","e","s",".","a","p","p","l","e",".","c","o","m","/","u","s","/","a","l","b","u","m","/","x","/","i","d","1">> }

UrlTextTokens == { <<"u","k",":","a","r","t","i","s","t",":">>, <<"2">>, <<" ">>, <<".","p","n","g">> }

HasUrlToken == \E i \in 1..Len(tokens) : tokens[i] \in UrlTokens

\* a query with at most one storefront address among other tokens
NextUrl ==
  \/ \E t \in (IF HasUrlToken THEN UrlTextTokens ELSE UrlTextTokens \cup UrlTokens) : Type(t)
  \/ Submit
  \/ TimerFires
  \/ LoadPage
  \/ TitleClick

SpecUrl == Init /\ [][NextUrl]_vars


\* resultItems.map of displayResults over the thumbnails tried, for every
\* entity and format: the card of each, computed once
renderedCards ==
  [t \in ThumbTokens |->
     [entity \in {"album", "song", "movie", "tvSeason", "software", "audiobook", "ebook"} |->
        [usePng \in BOOLEAN |-> cardOf(Flatten(t), entity, usePng)]]]

\* displayTitle of displayResults over the collection names tried, for the
\* album entity and for another one: the title of each, computed once
displayTitles ==
  [n \in TitleTokens |->
     [entity \in {"album", "song", "movie", "tvSeason", "software", "audiobook", "ebook"} |->
        displayTitleOf(Flatten(n), entity)]]

\* what displayResults(resultItems, entity, usePng) renders for one result:
\* the card and the display title, kept with the arguments they were
\* derived from
rendered(artwork, collectionName, entity, usePng) ==
  [artwork |-> artwork, collectionName |-> collectionName,
   entity |-> entity, usePng |-> usePng,
   card |-> renderedCards[artwork][entity][usePng],
   displayTitle |-> displayTitles[collectionName][entity]]

\* performSearch, from the answer on: the failure notice, the no-results
\* notice or the rendered results; displayResults throws on a record without
\* artworkUrl100 and leaves the container and the button as they are
performSearchResumes(call, resp) ==
    /\ pending' = pending \ {call}
    /\ response' = resp
    /\ sinceLoaderStart' =
         sinceLoaderStart + ensureMinimumLoaderDuration(call.loaderStartTime)
    /\ IF errorOf(call, resp) # ""
         THEN /\ display' = Display("failure", errorOf(call, resp), << >>)
              /\ shownCall' = call
              /\ submitDisabled' = (IF call.loaderStartTime THEN FALSE ELSE submitDisabled)
         ELSE IF resp.body # "records"
         THEN /\ display' = Display("noResults", "", << >>)
              /\ shownCall' = call
              /\ submitDisabled' = (IF call.loaderStartTime THEN FALSE ELSE submitDisabled)
         ELSE IF resp.artwork = NoArtwork
         THEN UNCHANGED <<display, shownCall, submitDisabled>>
         ELSE /\ display' = Display("results", "",
                              << rendered(resp.artwork, resp.collectionName,
                                           call.entity, call.usePng) >>)
              /\ shownCall' = call
              /\ submitDisabled' = FALSE
    /\ UNCHANGED <<tokens, timer, windowAttribute, windowUsePng, origin, rawArg,
                   parsed, request>>

\* an answer with one of the thumbnails tried arrives
ResponseArrives ==
  \E call \in pending : \E resp \in Responses : performSearchResumes(call, resp)

\* one media-kind prefix or a word, then the format modifier
ArtworkFirstTokens ==
  { <<"s","o","n","g",":">>, <<"a","u","d","i","o","b","o","o","k",":">>, <<"e","b","o","o","k",":">>, <<"m","o","v","i","e",":">>, <<"t","v",":">>, <<"a","p","p",":">>, <<"x">> }

ArtworkMoreTokens == { <<".","p","n","g">> }

NextArtwork ==
  \/ \E t \in (IF tokens = << >> THEN ArtworkFirstTokens ELSE ArtworkMoreTokens) : Type(t)
  \/ Submit
  \/ TimerFires
  \/ LoadPage
  \/ TitleClick
  \/ ResponseArrives

SpecArtwork == Init /\ [][NextArtwork]_vars

\* an answer with one of the collection names tried arrives
TitledResponseArrives ==
  \E call \in pending : \E resp \in TitledResponses : performSearchResumes(call, resp)

\* a word, with or without a media-kind prefix that is not the album one
TitleQueryTokens == { <<"s","o","n","g",":">>, <<"x">> }

NextTitle ==
  \/ \E t \in TitleQueryTokens : Type(t)
  \/ Submit
  \/ TimerFires
  \/ LoadPage
  \/ TitleClick
  \/ TitledResponseArrives

SpecTitle == Init /\ [][NextTitle]_vars

\* the user replaces the query in the input once a search has been started
Retype(ts) ==
  /\ origin # "none"
  /\ timer = NoTimer
  /\ tokens # ts
  /\ tokens' = ts
  /\ UNCHANGED <<timer, submitDisabled, windowAttribute, windowUsePng,
                 origin, rawArg, parsed, request, pending, response, display,
                 shownCall, sinceLoaderStart>>

\* the step of the clock, in milliseconds
ClockStep == 100

\* time passes while the loader is shown, followed up to minDuration
TimePasses ==
  /\ submitDisabled
  /\ sinceLoaderStart < MinDuration
  /\ sinceLoaderStart' = sinceLoaderStart + ClockStep
  /\ UNCHANGED <<tokens, timer, submitDisabled, windowAttribute, windowUsePng,
                 origin, rawArg, parsed, request, pending, response, display,
                 shownCall>>

\* one answer of each outcome: a transport failure, no results, a record
\* without artworkUrl100 and a record with a thumbnail
SearchResponses ==
  { [net |-> "fetchThrows", body |-> "none", artwork |-> NoArtwork,
     collectionName |-> PlainTitle],
    [net |-> "ok", body |-> "emptyResults", artwork |-> NoArtwork,
     collectionName |-> PlainTitle],
    [net |-> "ok", body |-> "records", artwork |-> NoArtwork,
     collectionName |-> PlainTitle],
    [net |-> "ok", body |-> "records",
     artwork |-> <<ThumbBase, FirstDir, HundredName, BbMarker, DotJpg>>,
     collectionName |-> PlainTitle] }

\* an answer of one of the outcomes arrives
SearchResponseArrives ==
  \E call \in pending : \E resp \in SearchResponses : performSearchResumes(call, resp)

\* a word or an attribute prefix, then the format modifier
SearchFirstTokens == { <<"x">>, <<"d","i","r","e","c","t","o","r",":">> }

SearchMoreTokens == { <<".","p","n","g">> }

\* the queries the user replaces the first one by
RetypedQueries ==
  { << <<"x">> >>, << <<"x">>, <<".","p","n","g">> >>,
    << <<"d","i","r","e","c","t","o","r",":">> >> }

\* searches that follow one another on one page, with the time that passes
\* while the loader is shown
NextSearches ==
  \/ \E t \in (IF tokens = << >> THEN SearchFirstTokens ELSE SearchMoreTokens) : Type(t)
  \/ \E ts \in RetypedQueries : Retype(ts)
  \/ Submit
  \/ TimerFires
  \/ LoadPage
  \/ TitleClick
  \/ SearchResponseArrives
  \/ TimePasses

SpecSearches == Init /\ [][NextSearches]_vars

\* the steps of TimerFires, told by what they do to the timer and to origin:
\* the only steps that clear a pending timer and leave a submitted search
TimerElapses == timer # NoTimer /\ timer' = NoTimer /\ origin' = "submit"

\* every timer fires and every request is answered
SpecSearchesFair ==
  SpecSearches /\ WF_timer(TimerElapses) /\ WF_vars(SearchResponseArrives)


(***************************************************************************)
(* The query as the documented grammar reads it, token by token.  These    *)
(* definitions restate the documentation; none of them is used by the      *)
(* handlers above.                                                         *)
(***************************************************************************)

IsSpaceToken(t) == t # << >> /\ \A i \in 1..Len(t) : t[i] \in WhiteSpace

IsPngToken(t) == toLowerCase(t) = DotPng

NotPngToken(t) == ~IsPngToken(t)

RECURSIVE DropLeadingSpaces(_)
DropLeadingSpaces(ts) ==
  IF ts # << >> /\ IsSpaceToken(Head(ts)) THEN DropLeadingSpaces(Tail(ts)) ELSE ts

RECURSIVE DropTrailingSpaces(_)
DropTrailingSpaces(ts) ==
  IF ts # << >> /\ IsSpaceToken(ts[Len(ts)])
    THEN DropTrailingSpaces(SubSeq(ts, 1, Len(ts) - 1))
    ELSE ts

TrimTokens(ts) == DropTrailingSpaces(DropLeadingSpaces(ts))

\* the tokens of the string handed to the parser: the form trims the input,
\* the page address does not
EnteredTokens == IF origin = "submit" THEN TrimTokens(tokens) ELSE tokens

HasPngToken == \E i \in 1..Len(EnteredTokens) : IsPngToken(EnteredTokens[i])

\* the tokens left once the format modifier is taken out
QueryTokens ==
  IF HasPngToken THEN TrimTokens(SelectSeq(EnteredTokens, NotPngToken)) ELSE EnteredTokens

IsCountryToken(t) ==
  /\ Len(t) = 3
  /\ t[3] = ":"
  /\ toLowerCase(SubSeq(t, 1, 2)) \in ReadmeCountryCodes

\* `uk:` stands for gb, every other country prefix for itself
ReadmeCountryOf(t) ==
  LET code == toLowerCase(SubSeq(t, 1, 2))
  IN  IF code = <<"u","k">> THEN <<"g","b">> ELSE code

ReadmeKinds ==
  { [prefix |-> <<"a","l","b","u","m",":">>,     kind |-> "album"],
    [prefix |-> <<"s","o","n","g",":">>,      kind |-> "song"],
    [prefix |-> <<"m","o","v","i","e",":">>,     kind |-> "movie"],
    [prefix |-> <<"t","v",":">>,        kind |-> "tvSeason"],
    [prefix |-> <<"a","p","p",":">>,       kind |-> "software"],
    [prefix |-> <<"a","u","d","i","o","b","o","o","k",":">>, kind |-> "audiobook"],
    [prefix |-> <<"e","b","o","o","k",":">>,     kind |-> "ebook"] }

IsKindToken(t) == \E r \in ReadmeKinds : r.prefix = toLowerCase(t)

ReadmeKindOf(t) == (CHOOSE r \in ReadmeKinds : r.prefix = toLowerCase(t)).kind

ReadmeAttributes ==
  { [prefix |-> <<"a","r","t","i","s","t",":">>,   attribute |-> "artistTerm",   kind |-> "album"],
    [prefix |-> <<"t","i","t","l","e",":">>,    attribute |-> "titleTerm",    kind |-> "album"],
    [prefix |-> <<"c","o","m","p","o","s","e","r",":">>, attribute |-> "composerTerm", kind |-> "album"],
    [prefix |-> <<"a","u","t","h","o","r",":">>,   attribute |-> "authorTerm",   kind |-> "audiobook"],
    [prefix |-> <<"d","i","r","e","c","t","o","r",":">>, attribute |-> "directorTerm", kind |-> "movie"],
    [prefix |-> <<"a","c","t","o","r",":">>,    attribute |-> "actorTerm",    kind |-> "movie"] }

IsAttributeToken(t) == \E r \in ReadmeAttributes : r.prefix = toLowerCase(t)

ReadmeAttributeOf(t) == CHOOSE r \in ReadmeAttributes : r.prefix = toLowerCase(t)

\* the grammar: one optional country prefix, then one optional media-kind
\* prefix, then one optional attribute prefix, each at the start of what is left
CountryGiven == QueryTokens # << >> /\ IsCountryToken(Head(QueryTokens))

AfterCountry == IF CountryGiven THEN DropLeadingSpaces(Tail(QueryTokens)) ELSE QueryTokens

KindGiven == AfterCountry # << >> /\ IsKindToken(Head(AfterCountry))

AfterKind == IF KindGiven THEN DropLeadingSpaces(Tail(AfterCountry)) ELSE AfterCountry

AttributeGiven == AfterKind # << >> /\ IsAttributeToken(Head(AfterKind))

AfterAttribute == IF AttributeGiven THEN DropLeadingSpaces(Tail(AfterKind)) ELSE AfterKind

GrammarCountry == IF CountryGiven THEN ReadmeCountryOf(Head(QueryTokens)) ELSE <<"u","s">>

GrammarKind ==
  IF KindGiven THEN ReadmeKindOf(Head(AfterCountry))
  ELSE IF AttributeGiven THEN ReadmeAttributeOf(Head(AfterKind)).kind
  ELSE "album"

GrammarAttribute == IF AttributeGiven THEN ReadmeAttributeOf(Head(AfterKind)).attribute ELSE ""

\* a search has been started and its query parsed
Searched == origin # "none"

IsCatalogId(s) == s # << >> /\ \A i \in 1..Len(s) : s[i] \in Digits

\* the media parameter the README documents for each entity
ReadmeMediaOf(entity) ==
  CASE entity = "album"     -> "music"
    [] entity = "song"      -> "music"
    [] entity = "movie"     -> "movie"
    [] entity = "tvSeason"  -> "tvShow"
    [] entity = "software"  -> "app"
    [] entity = "audiobook" -> "audiobook"
    [] entity = "ebook"     -> "ebook"
    [] OTHER                -> ""

(***************************************************************************)
(* Claims.                                                                 *)
(***************************************************************************)

\* C1: every search, started by the form or by the page load, goes to the
\* lookup endpoint keyed by the id when the parsed query has directLookup,
\* and to the search endpoint otherwise.
C1_EndpointFollowsDirectLookup ==
  Searched =>
    /\ request.endpoint = (IF parsed.lookupMode THEN "lookup" ELSE "search")
    /\ request.term = parsed.searchTerm

\* C2: directLookup is true exactly when the term resolves to a bare catalog
\* identifier: a numeric id (also after a prefix) or the id of a storefront
\* address; it is false for every other input.
C2_DirectLookupIffCatalogId ==
  Searched => (parsed.lookupMode <=> IsCatalogId(parsed.searchTerm))

\* C3: the search request carries the entity of the media-type prefix and
\* the media parameter the README documents for it.
C3_RequestCarriesReadmeMedia ==
  (Searched /\ request.endpoint = "search") =>
    /\ request.entity = parsed.entity
    /\ request.media = ReadmeMediaOf(parsed.entity)

\* C4: the searchTerm returned by the parser has no leading and no trailing
\* white space, whatever the raw input.
C4_SearchTermTrimmed ==
  Searched => parsed.searchTerm = trim(parsed.searchTerm)

\* C5: a raw string containing `.png` in any letter case sets the png format,
\* and the returned searchTerm contains no occurrence of `.png`, also when a
\* removal joins the surrounding characters into a new one.
C5_NoPngTokenLeft ==
  Searched =>
    /\ includes(toLowerCase(rawArg), DotPng) => parsed.usePng
    /\ ~includes(toLowerCase(parsed.searchTerm), DotPng)


\* the kind the path of a storefront address stands for: the first of these
\* segments it contains, album when it contains none
StorefrontSegments ==
  << [segment |-> <<"/","a","p","p","/">>,       kind |-> "software"],
     [segment |-> <<"/","m","o","v","i","e","/">>,     kind |-> "movie"],
     [segment |-> <<"/","t","v","-","s","e","a","s","o","n","/">>,  kind |-> "tvSeason"],
     [segment |-> <<"/","t","v","s","h","o","w","/">>,    kind |-> "tvSeason"],
     [segment |-> <<"/","a","u","d","i","o","b","o","o","k","/">>, kind |-> "audiobook"],
     [segment |-> <<"/","b","o","o","k","s","/">>,     kind |-> "ebook"],
     [segment |-> <<"/","b","o","o","k","/">>,      kind |-> "ebook"] >>

StorefrontKind(url) ==
  LET found == { k \in 1..Len(StorefrontSegments) :
                   includes(toLowerCase(url), StorefrontSegments[k].segment) }
  IN  IF found = {} THEN "album" ELSE StorefrontSegments[SetMin(found)].kind

\* the query a storefront address m stands for
IsUrlQuery(m) ==
  /\ parsed.searchTerm = m.id
  /\ parsed.lookupMode
  /\ parsed.entity = StorefrontKind(m.url)
  /\ parsed.attribute = ""
  /\ parsed.countryCode = <<"u","s">>

\* C6 as stated: a storefront address in the raw string decides the query,
\* whatever else the string holds.
C6_RawUrlDecidesQuery ==
  Searched => \A m \in {urlMatch(rawArg)} : m.found => IsUrlQuery(m)

\* C6, amended: the first storefront address in the raw string once its
\* `.png` tokens are removed (one pass), taken up to its last /id{digits},
\* decides the query: searchTerm is those digits, directLookup is true,
\* mediaKind follows its path segment, attribute is none and country is us,
\* whatever prefixes stand in the rest of the string.
C6_StrippedUrlDecidesQuery ==
  Searched => \A m \in {urlMatch(removePng(rawArg))} : m.found => IsUrlQuery(m)

\* a tvshow address behind a country prefix: the prefix is ignored
C6_Witness ==
  /\ Searched
  /\ parsed.lookupMode
  /\ parsed.entity = "tvSeason"
  /\ startsWith(rawArg, <<"u","k",":">>)
  /\ includes(rawArg, <<"/","t","v","s","h","o","w","/">>)
  /\ parsed.countryCode = <<"u","s">>

\* C7: for every country prefix of the table, in any letter case, the query
\* prefix + "x" yields the mapped country code (uk: gives gb, every other
\* prefix itself), searchTerm "x", and album, no attribute, jpg.
C7_CountryPrefixYieldsCode ==
  (/\ Searched
   /\ Len(rawArg) = 4
   /\ IsCountryToken(SubSeq(rawArg, 1, 3))
   /\ rawArg[4] = "x")
  => /\ parsed.countryCode = ReadmeCountryOf(SubSeq(rawArg, 1, 3))
     /\ parsed.searchTerm = <<"x">>
     /\ parsed.entity = "album"
     /\ parsed.attribute = ""
     /\ ~parsed.usePng

\* the query "Uk:x" parsed to gb
C7_Witness ==
  /\ Searched
  /\ rawArg = <<"U","k",":","x">>
  /\ parsed.countryCode = <<"g","b">>
  /\ parsed.searchTerm = <<"x">>

\* C8: a matched attribute prefix sets mediaKind to the attribute's default
\* kind only if no media-kind prefix was consumed before it; otherwise
\* mediaKind stays the explicit kind and only the attribute is set.
C8_ExplicitKindSuppressesInference ==
  (Searched /\ AttributeGiven) =>
    /\ parsed.attribute = ReadmeAttributeOf(Head(AfterKind)).attribute
    /\ parsed.entity = (IF KindGiven THEN ReadmeKindOf(Head(AfterCountry))
                        ELSE ReadmeAttributeOf(Head(AfterKind)).kind)

\* "tv: director:" keeps tvSeason although director: alone would give movie
C8_Witness ==
  /\ Searched
  /\ KindGiven
  /\ AttributeGiven
  /\ parsed.attribute = "directorTerm"
  /\ parsed.entity = "tvSeason"

\* C9: prefixes are consumed only at the start of the remaining term, in the
\* order country, media kind, attribute, at most one of each; a repeated
\* prefix or one of an earlier category behind a later one is not consumed,
\* changes no field and stays in searchTerm.
C9_PrefixesConsumedInOrder ==
  Searched =>
    /\ parsed.countryCode = GrammarCountry
    /\ parsed.entity = GrammarKind
    /\ parsed.attribute = GrammarAttribute
    /\ trim(parsed.searchTerm) = trim(Flatten(AfterAttribute))

\* a country prefix behind an attribute prefix stays in searchTerm
C9_Witness ==
  /\ Searched
  /\ parsed.attribute = "artistTerm"
  /\ parsed.countryCode = <<"u","s">>
  /\ startsWith(parsed.searchTerm, <<"u","k",":">>)

KindValues == {"album", "song", "movie", "tvSeason", "software", "audiobook", "ebook"}

AttributeValues == {"", "artistTerm", "titleTerm", "authorTerm", "directorTerm",
                    "actorTerm", "composerTerm"}

CountryValues == {<<"u","s">>} \cup {ReadmeCountryOf(code \o <<":">>) : code \in ReadmeCountryCodes}

StartsWithRecognizedPrefix(s) ==
  \/ \E i \in 1..Len(countryMap) : startsWith(toLowerCase(s), countryMap[i].prefix)
  \/ \E i \in 1..Len(entityMap) : startsWith(toLowerCase(s), entityMap[i].prefix)
  \/ \E i \in 1..Len(attributeEntityMap) :
       startsWith(toLowerCase(s), attributeEntityMap[i].prefix)

\* C11: idempotence: when the parsed searchTerm starts with no recognized
\* prefix, parsing that searchTerm again returns the same searchTerm and the
\* all-default query (album, no attribute, us, jpg, no direct lookup).
C11_ParseIdempotent ==
  (Searched /\ ~StartsWithRecognizedPrefix(parsed.searchTerm)) =>
    \E again \in {parseSearchTerm(parsed.searchTerm)} :
      /\ again.searchTerm = parsed.searchTerm
      /\ again.entity = "album"
      /\ again.attribute = ""
      /\ again.countryCode = <<"u","s">>
      /\ ~again.usePng
      /\ ~again.lookupMode

\* C12: a call of the parser changes no state outside its return value: the
\* global window.attribute is the same after the call as before it.
C12_ParseLeavesGlobalsAlone ==
  [][(TimerFires \/ LoadPage) => windowAttribute' = windowAttribute]_vars

(***************************************************************************)
(* The rendered results as the specification reads them, from the tokens   *)
(* of the thumbnail.  None of these definitions is used by the handlers.   *)
(***************************************************************************)

\* results are shown
Shown == display.outcome = "results"

\* the extension of the output format
FormatExtension(usePng) == IF usePng THEN DotPng ELSE DotJpg

\* the thumbnail carries a WxH size token
HasSizeToken(t) == t[3] \in {HundredName, SixtyName}

\* the thumbnail with its size token and marker replaced by {size}x{size}-999,
\* up to the extension
ResizedStem(t, size) ==
  t[1] \o t[2] \o (IF HasSizeToken(t) THEN size \o <<"x">> \o size \o Dash999
                   ELSE t[3] \o t[4])

\* url is the resize of thumbnail t at that size: the stem, the extension of
\* the thumbnail unless it is .jpg, and the extension of the format
IsResized(url, t, size, usePng) ==
  IF t[5] \in {DotJpg, << >>}
    THEN url = ResizedStem(t, size) \o FormatExtension(usePng)
    ELSE /\ startsWith(url, ResizedStem(t, size))
         /\ endsWith(url, FormatExtension(usePng))

\* the labels of the links of each media kind, in order
KindLabels(kind) ==
  CASE kind \in {"album", "song"} -> <<"600", "1500", "3000", "HD">>
    [] kind = "audiobook"        -> <<"3000", "HD">>
    [] kind = "ebook"            -> <<"2200", "HD">>
    [] OTHER                     -> <<"HD">>

LabelsOf(links) == [i \in 1..Len(links) |-> links[i].label]

SizeOfLabel(label) ==
  CASE label = "600"  -> <<"6","0","0">>
    [] label = "1500" -> <<"1","5","0","0">>
    [] label = "3000" -> <<"3","0","0","0">>
    [] OTHER          -> << >>

\* C13: the link set of a result has exactly the links of its media kind, in
\* order: 600, 1500, 3000 and max for album and song; 3000 and max for
\* audiobook; the 1467x2200 link and max for ebook; max only for movie,
\* tvSeason and software.
C13_LinkSetOfKind ==
  Shown =>
    \A i \in 1..Len(display.cards) :
      LET r == display.cards[i]
      IN  /\ LabelsOf(r.card.links) = KindLabels(r.entity)
          /\ \A k \in 1..Len(r.card.links) :
               /\ (SizeOfLabel(r.card.links[k].label) # << >> /\ HasSizeToken(r.artwork)) =>
                    includes(r.card.links[k].url,
                             <<"/">> \o SizeOfLabel(r.card.links[k].label) \o <<"x">>
                               \o SizeOfLabel(r.card.links[k].label))
               /\ (r.card.links[k].label = "2200" /\ r.artwork[3] = HundredName) =>
                    includes(r.card.links[k].url, <<"/","1","4","6","7","x","2","2","0","0">>)

\* an audiobook with its two links
C13_Witness ==
  /\ Shown
  /\ display.cards[1].entity = "audiobook"
  /\ display.cards[1].artwork = <<ThumbBase, FirstDir, HundredName, BbMarker, DotJpg>>
  /\ Len(display.cards[1].card.links) = 2

\* C14: every URL of the link set, the maximum-resolution link included,
\* ends in .png when the output format is png and in .jpg when it is jpg.
C14_EveryLinkEndsInFormat ==
  Shown =>
    \A i \in 1..Len(display.cards) :
      \A k \in 1..Len(display.cards[i].card.links) :
        endsWith(display.cards[i].card.links[k].url,
                 FormatExtension(display.cards[i].usePng))

ReRootedStem(dir) == IF dir = FirstDir THEN <<"M","/","a">> ELSE <<"M","b","b","/","a">>

MaxLinkOf(links) == links[Len(links)].url

\* C16: the maximum-resolution URL of album, song, audiobook, ebook and
\* software is the path between /image/thumb/ and the last segment under the
\* high-resolution host; bb is removed only before the extension of the last
\* segment and is left unchanged everywhere else.
C16_MaxIsReRootedKeepingBb ==
  Shown =>
    \A i \in 1..Len(display.cards) :
      LET r == display.cards[i]
      IN  (r.entity \in {"album", "song", "audiobook", "ebook", "software"}
             /\ r.artwork[1] = ThumbBase) =>
            \E e \in {DotJpg, DotPng} :
              MaxLinkOf(r.card.links) = HdPrefix \o ReRootedStem(r.artwork[2]) \o e

\* a thumbnail whose path holds bb in a directory and before an extension
C16_Witness ==
  /\ Shown
  /\ display.cards[1].entity = "album"
  /\ display.cards[1].artwork = <<ThumbBase, BbDir, HundredName, BbMarker, DotJpg>>
  /\ MaxLinkOf(display.cards[1].card.links) = HdPrefix \o <<"M","b","b","/","a",".","j","p","g">>

\* the thumbnail with 100x100 replaced by 10000x10000-999, up to the marker
MovieStem(t) ==
  t[1] \o t[2] \o (IF t[3] = HundredName THEN <<"1","0","0","0","0","x","1","0","0","0","0","-","9","9","9">> ELSE t[3])

\* C17: the tvSeason link is the same string as the movie link for the same
\* thumbnail and format, and both are the thumbnail with 100x100 replaced by
\* 10000x10000-999 on the thumbnail's own host and path.
C17_TvLinkIsMovieLink ==
  Shown =>
    \A i \in 1..Len(display.cards) :
      LET r == display.cards[i]
      IN  r.entity \in {"movie", "tvSeason"} =>
            /\ renderedCards[r.artwork]["movie"][r.usePng].links
                 = renderedCards[r.artwork]["tvSeason"][r.usePng].links
            /\ Len(r.card.links) = 1
            /\ startsWith(r.card.links[1].url, MovieStem(r.artwork))

\* a tvSeason link on the thumbnail's own host
C17_Witness ==
  /\ Shown
  /\ display.cards[1].entity = "tvSeason"
  /\ display.cards[1].artwork = <<ThumbBase, FirstDir, HundredName, BbMarker, DotJpg>>
  /\ display.cards[1].card.links[1].url
       = ThumbBase \o FirstDir \o <<"1","0","0","0","0","x","1","0","0","0","0","-","9","9","9",".","j","p","g">>

\* C18: the non-max link of an ebook is the thumbnail with 100x100 replaced
\* by 1467x2200, the bb before the extension removed, -999 once directly
\* before the extension, and the extension of the format.
C18_EbookLinkNormalized ==
  Shown =>
    \A i \in 1..Len(display.cards) :
      LET r == display.cards[i]
      IN  (r.entity = "ebook" /\ r.artwork[3] = HundredName /\ r.artwork[5] = DotJpg) =>
            r.card.links[1].url
              = r.artwork[1] \o r.artwork[2] \o <<"1","4","6","7","x","2","2","0","0","-","9","9","9">> \o FormatExtension(r.usePng)

\* the thumbnail with only the extension normalization applied
ExtensionNormalized(t, usePng) ==
  IF t[5] = DotJpg THEN t[1] \o t[2] \o t[3] \o t[4] \o FormatExtension(usePng)
  ELSE Flatten(t) \o FormatExtension(usePng)

\* a thumbnail without size token, or a maximum-resolution address
IsMalformed(t) == ~HasSizeToken(t)

Answered == response # NoResponse

\* C20: a transport failure ends in the failure notice with the error
\* message, a successful answer with an empty or missing results array in
\* the no-results notice, a non-empty results array in rendered results.
C20_OutcomeClassified ==
  Answered =>
    /\ response.net # "ok" => (display.outcome = "failure" /\ display.error # "")
    /\ (response.net = "ok" /\ response.body # "records") => display.outcome = "noResults"
    /\ (response.net = "ok" /\ response.body = "records") => display.outcome = "results"

\* the first marker that is a word of the collection name, EP before Single
MarkerOf(name) ==
  IF \E i \in 1..Len(name) : name[i] = EpWord THEN EpWord
  ELSE IF \E i \in 1..Len(name) : name[i] = SingleWord THEN SingleWord
  ELSE << >>

TagOf(marker) == IF marker = EpWord THEN EpTag ELSE SingleTag

\* the collection name without the first occurrence of the marker and
\* without the separator that precedes it
WithoutMarker(name, marker) ==
  LET i == CHOOSE k \in 1..Len(name) :
             name[k] = marker /\ \A j \in 1..(k - 1) : name[j] # marker
  IN  SubSeq(name, 1, IF i > 1 THEN i - 2 ELSE 0) \o SubSeq(name, i + 1, Len(name))

\* C21: for the album kind, a collection name that holds EP (or else Single)
\* as a whole word is shown without that occurrence of the marker and with
\* the tag [EP] (or [Single]) appended, the rest of the name unchanged; a
\* name without such a word is shown unchanged
C21_AlbumTitleNormalized ==
  Shown =>
    \A i \in 1..Len(display.cards) :
      LET r == display.cards[i]
          name == r.collectionName
      IN  r.entity = "album" =>
            r.displayTitle =
              (IF MarkerOf(name) = << >>
                 THEN Flatten(name)
                 ELSE trim(Flatten(WithoutMarker(name, MarkerOf(name))))
                        \o TagOf(MarkerOf(name)))

\* C22: after every form submission that disables the submit button and
\* shows the loader, the button is eventually enabled again and the loader
\* hidden, whatever the outcome of the search
C22_ButtonEventuallyReset == submitDisabled ~> ~submitDisabled

\* the performSearch call of the most recently started search
LatestCall ==
  Call(parsed.entity, parsed.usePng, origin = "submit",
       origin = "submit" /\ parsed.lookupMode)

\* C23: the results shown are those of the most recently started search:
\* once they are shown, the answer to an earlier search that was still in
\* flight never replaces them
C23_LatestSearchStaysShown ==
  [][(Shown /\ shownCall = LatestCall /\ SearchResponseArrives)
       => shownCall' = LatestCall]_vars

\* C24: the format flag the artwork modal reads (window.usePng) is the
\* output format of the search whose results are shown
C24_ModalFormatIsShownFormat ==
  Shown => \A i \in 1..Len(display.cards) : windowUsePng = display.cards[i].usePng

\* C25: the attribute parameter of every search request is the attribute of
\* the query parsed for that search, and is absent when the query has none,
\* whatever other searches were started before and are still in flight
C25_RequestAttributeIsParsedAttribute ==
  Searched =>
    request.attribute = (IF parsed.attribute = "" THEN NoParam ELSE parsed.attribute)

\* a submitted search without attribute is sent while the page-load search
\* for a director is still in flight
C25_Witness ==
  /\ origin = "submit"
  /\ parsed.attribute = ""
  /\ request.attribute = NoParam
  /\ \E call \in pending : call.entity = "movie" /\ ~call.loaderStartTime

\* C26: while the loader of a form submission is shown, no answer resets
\* the button or writes results or a notice earlier than 1000 ms after the
\* loader start time taken at the submission
C26_LoaderShownMinDuration ==
  [][(submitDisabled /\ SearchResponseArrives
        /\ (~submitDisabled' \/ display' # display))
       => sinceLoaderStart' >= MinDuration]_vars
====
